---- MODULE Spec2Model ----
(***************************************************************************)
(* Prompt-gamma timing simulation and reconstruction                       *)
(* (src/forwardPass.py, src/Reconstruction.py, src/Main.py).               *)
(*                                                                         *)
(* Numbers.  The program computes in IEEE doubles.  The model keeps a      *)
(* double as a fixed-point integer (value * scale, rounded down) and keeps *)
(* the three outcomes of double arithmetic that are not ordinary numbers:  *)
(*   - exp underflows to exactly 0 below exp(-745) (ExpUnderflow);         *)
(*   - x/0 is inf and 0/0 is nan (numpy warns and goes on);                *)
(*   - a positive double that is smaller than the model's quantum is kept  *)
(*     as one quantum, never as 0: zero in the model means zero in the     *)
(*     program.                                                            *)
(* Times are integer ticks; a bin centre, which may fall on a half tick,   *)
(* is kept doubled.                                                        *)
(***************************************************************************)
EXTENDS Integers, Sequences, FiniteSets, TLC

\* ------------------------------------------------------------- bounds
\* Longest depth axis (the program's axis has 301 bins).
MaxBins == 2
\* Most timestamps handed to Reconstruction.
MaxHits == 3

\* ---------------------------------------------------------- constants
\* The model's resolution: 1.0 is Scale quanta of a fixed-point double.
Scale == 10 * 10 * 10
\* np.exp(-q) is 0.0 for q > 745 (the smallest double is about exp(-744.4)).
ExpUnderflow == 745

\* ------------------------------------------------------------ helpers
Max2(a, b) == IF a >= b THEN a ELSE b
Min2(a, b) == IF a <= b THEN a ELSE b
Abs(a) == IF a < 0 THEN -a ELSE a
CeilDiv(a, b) == (a + b - 1) \div b

RECURSIVE SumSeq(_)
SumSeq(s) == IF s = <<>> THEN 0 ELSE Head(s) + SumSeq(Tail(s))

SeqMin(s) == CHOOSE m \in {s[j] : j \in 1..Len(s)} : \A j \in 1..Len(s) : m <= s[j]
SeqMax(s) == CHOOSE m \in {s[j] : j \in 1..Len(s)} : \A j \in 1..Len(s) : m >= s[j]

\* np.sqrt on a non-negative number, rounded down to the model's quantum.
RECURSIVE SqrtSearch(_, _, _)
SqrtSearch(n, lo, hi) ==
  IF lo = hi THEN lo
  ELSE LET mid == (lo + hi + 1) \div 2
       IN  IF mid * mid <= n THEN SqrtSearch(n, mid, hi)
           ELSE SqrtSearch(n, lo, mid - 1)
ISqrt(n) == SqrtSearch(n, 0, Min2(n, 46340))
\* np.sqrt: nan on a negative number (numpy warns and goes on).
FSqrt(n) == IF n < 0 THEN [k |-> "nan", v |-> 0] ELSE [k |-> "num", v |-> ISqrt(n)]

\* A double: an ordinary number (fixed point), inf or nan.
Num(v) == [k |-> "num", v |-> v]
NaN == [k |-> "nan", v |-> 0]
Inf == [k |-> "inf", v |-> 0]
IsNum(x) == x.k = "num"

\* a + b on non-negative doubles.
FAdd(a, b) ==
  IF a.k = "nan" \/ b.k = "nan" THEN NaN
  ELSE IF a.k = "inf" \/ b.k = "inf" THEN Inf
  ELSE Num(a.v + b.v)

\* a * b on non-negative doubles; `scale` is the scale of b (1 for a whole
\* number), so that the product keeps the scale of a.
FMul(a, b, scale) ==
  IF a.k = "nan" \/ b.k = "nan" THEN NaN
  ELSE IF a.k = "inf" THEN (IF b.k = "num" /\ b.v = 0 THEN NaN ELSE Inf)
  ELSE IF b.k = "inf" THEN (IF a.v = 0 THEN NaN ELSE Inf)
  ELSE IF a.v = 0 \/ b.v = 0 THEN Num(0)
  ELSE Num(Max2(1, (a.v * b.v) \div scale))

\* a / b on non-negative doubles, the quotient kept at `scale` quanta per unit.
FDiv(a, b, scale) ==
  IF a.k = "nan" \/ b.k = "nan" THEN NaN
  ELSE IF a.k = "inf" THEN (IF b.k = "inf" THEN NaN ELSE Inf)
  ELSE IF b.k = "inf" THEN Num(0)
  ELSE IF b.v = 0 THEN (IF a.v = 0 THEN NaN ELSE Inf)
  ELSE IF a.v = 0 THEN Num(0)
  ELSE Num(Max2(1, (a.v * scale) \div b.v))

\* exp(-j) for whole j, in quanta of 1/Scale.
ExpInt == <<1000, 368, 135, 50, 18, 7, 2, 1>>

\* exp(-r) for 0 <= r < 1, r given in quanta: the Taylor polynomial of degree 6
\* in Horner form, 1 - r(1 - r/2(1 - r/3(...))).
RECURSIVE ExpFrac(_, _)
ExpFrac(r, i) ==
  IF i > 6 THEN Scale
  ELSE Scale - (r * ExpFrac(r, i + 1)) \div (i * Scale)

\* np.exp(-(n/d)) for n >= 0, d > 0, in quanta of 1/Scale: 0 past the
\* underflow of doubles, and never 0 before it (a value below one quantum is
\* kept as one quantum).
ExpNeg(n, d) ==
  IF n > ExpUnderflow * d THEN 0
  ELSE LET j == n \div d
           r == ((n % d) * Scale) \div d
       IN  IF j >= Len(ExpInt) THEN 1
           ELSE Max2(1, (ExpInt[j + 1] * ExpFrac(r, 1)) \div Scale)

\* np.pi as the fraction PiNum/PiDen.
PiNum == 355
PiDen == 113

VARIABLES
  pc,              \* the function called, then where it stands
  err,             \* the exception that ended it, or NoError
  \* Reconstruction's arguments
  phantom, detectorData, tp, gammaTOF, tBinWidth, sigma, dArea, distMag, aFactor,
  \* Reconstruction's locals
  tExpected, tCounts, i, weights, reconstructed, correctedRecon,
  \* SimulateBurst
  peak, pPB, yiel, dTRes, mean, k, timingJitter, measuredTime,
  \* CreateBraggCurve
  peakHeight, entranceDose, peakWidth, falloffSteepness, dose,
  \* velocities and ProtonTime
  initialE, energies, vel, integrand

reconArgs == <<phantom, detectorData, tp, gammaTOF, tBinWidth, sigma, dArea, distMag, aFactor>>
reconLocals == <<tExpected, tCounts, i, weights, reconstructed, correctedRecon>>
burstVars == <<peak, pPB, yiel, dTRes, mean, k, timingJitter, measuredTime>>
braggVars == <<peakHeight, entranceDose, peakWidth, falloffSteepness, dose>>
kinVars == <<initialE, energies, vel, integrand>>
vars == <<pc, err, reconArgs, reconLocals, burstVars, braggVars, kinVars>>

\* The value of a variable the function under study does not use.
Idle == <<>>
NoError == [type |-> "", at |-> ""]
Raise(type, at) == [type |-> type, at |-> at]

\* ------------------------------------------------ geometry (forwardPass)
\* CreatePhantom: n depth bins 1 mm apart, starting at 0.
CreatePhantom(n) == [z \in 1..n |-> z - 1]

\* CalculateDistances: the magnitude of detectorLocation - [x, 0] per bin.
CalculateDistances(ph, detectorLocation) ==
  [z \in 1..Len(ph) |->
     ISqrt((detectorLocation[1] - ph[z]) * (detectorLocation[1] - ph[z])
           + detectorLocation[2] * detectorLocation[2])]

\* ------------------------------------------------------ numpy shapes
\* The length two 1-d arrays broadcast to; 0 when numpy raises ValueError.
BroadcastLen(la, lb) ==
  IF la = lb THEN la ELSE IF la = 1 THEN lb ELSE IF lb = 1 THEN la ELSE 0

\* Element z of an array broadcast to a longer one.
At(s, z) == IF Len(s) = 1 THEN s[1] ELSE s[z]

\* --------------------------------------------------- Reconstruction
\* np.arange(lo, hi + w, w) has CeilDiv(hi - lo, w) + 1 edges lo + b*w, so the
\* histogram has NumBins bins; none when every timestamp is the same.
NumBins(data, w) == CeilDiv(SeqMax(data) - SeqMin(data), w)

\* np.histogram: bin b (from 1) is [lo + (b-1)w, lo + bw), the last one closed.
BinOf(data, w, x) ==
  LET lo == SeqMin(data)
      nb == NumBins(data, w)
  IN  IF x = lo + nb * w THEN nb ELSE (x - lo) \div w + 1

Histogram(data, w) ==
  LET nb == NumBins(data, w)
  IN  IF nb = 0 THEN <<>>
      ELSE [b \in 1..nb |->
              Cardinality({j \in 1..Len(data) : BinOf(data, w, data[j]) = b})]

\* Twice the centre of bin b: (edge[b-1] + edge[b]) / 2, doubled.
BinCentre2(data, w, b) == 2 * SeqMin(data) + (2 * b - 1) * w

\* exp(-tDiffs**2 / (2*sigma**2)) per depth bin, tDiffs = |tExpected - tBin|.
GaussWeights(tExp, centre2, sg) ==
  [z \in 1..Len(tExp) |->
     LET tDiff2 == Abs(2 * tExp[z] - centre2)
     IN  ExpNeg(tDiff2 * tDiff2, 8 * sg * sg)]

\* weights / np.sum(weights)
Normalise(ws) ==
  [z \in 1..Len(ws) |-> FDiv(Num(ws[z]), Num(SumSeq(ws)), Scale)]

\* dArea / (4 * pi * (distMag/1000)**2); dArea is kept in mm^2 and distMag in
\* mm, so the program's metres cancel.
SensitivityInverted(area, dist) ==
  [z \in 1..Len(dist) |->
     FDiv(Num(4 * PiNum * dist[z] * dist[z]), Num(area * PiDen), Scale)]
Sensitivity(area, dist) ==
  [z \in 1..Len(dist) |->
     FDiv(Num(area * PiDen), Num(4 * PiNum * dist[z] * dist[z]), Scale)]

\* reconstructed / (sensitivity * aFactor), elementwise, broadcast to length n.
Correct(recon, sens, atten, n) ==
  [z \in 1..n |->
     FDiv(At(recon, z), FMul(At(sens, z), Num(At(atten, z)), Scale), Scale)]

\* Lines 23-31: the expected times, the histogram, the zeroed accumulator.
ReconStart ==
  /\ pc = "Reconstruction"
  /\ IF BroadcastLen(Len(tp), Len(gammaTOF)) = 0
     THEN /\ pc' = "raised"
          /\ err' = Raise("ValueError", "tp + gammaTOF")
          /\ UNCHANGED reconLocals
     ELSE IF Len(detectorData) = 0
     THEN /\ pc' = "raised"
          /\ err' = Raise("ValueError", "detectorData.min()")
          /\ tExpected' = [z \in 1..BroadcastLen(Len(tp), Len(gammaTOF)) |->
                             At(tp, z) + At(gammaTOF, z)]
          /\ UNCHANGED <<tCounts, i, weights, reconstructed, correctedRecon>>
     ELSE /\ pc' = "loop"
          /\ tExpected' = [z \in 1..BroadcastLen(Len(tp), Len(gammaTOF)) |->
                             At(tp, z) + At(gammaTOF, z)]
          /\ tCounts' = Histogram(detectorData, tBinWidth)
          /\ i' = 0
          /\ reconstructed' = [z \in 1..Len(phantom) |-> Num(0)]
          /\ UNCHANGED <<err, weights, correctedRecon>>
  /\ UNCHANGED <<reconArgs, burstVars, braggVars, kinVars>>

\* Lines 35-36: a time bin without counts is passed.
SkipEmptyBin ==
  /\ pc = "loop"
  /\ i < Len(tCounts)
  /\ tCounts[i + 1] = 0
  /\ i' = i + 1
  /\ UNCHANGED <<pc, err, tExpected, tCounts, weights, reconstructed, correctedRecon>>
  /\ UNCHANGED <<reconArgs, burstVars, braggVars, kinVars>>

\* Lines 38-45: the Gaussian weights of a bin with counts, normalised, and
\* count * weights added into the accumulator (in place: weights must
\* broadcast to the accumulator's own length).
BackProject ==
  /\ pc = "loop"
  /\ i < Len(tCounts)
  /\ tCounts[i + 1] # 0
  /\ weights' = Normalise(GaussWeights(tExpected,
                   BinCentre2(detectorData, tBinWidth, i + 1), sigma))
  /\ IF Len(tExpected) # Len(phantom) /\ Len(tExpected) # 1
     THEN /\ pc' = "raised"
          /\ err' = Raise("ValueError", "reconstructed += count*weights")
          /\ UNCHANGED <<i, reconstructed>>
     ELSE /\ reconstructed' =
               [z \in 1..Len(phantom) |->
                  FAdd(reconstructed[z],
                       FMul(Num(tCounts[i + 1]), At(weights', z), 1))]
          /\ i' = i + 1
          /\ UNCHANGED <<pc, err>>
  /\ UNCHANGED <<tExpected, tCounts, correctedRecon>>
  /\ UNCHANGED <<reconArgs, burstVars, braggVars, kinVars>>

\* Lines 50-53: the sensitivity and attenuation correction, and the return.
ReconCorrect ==
  /\ pc = "loop"
  /\ i = Len(tCounts)
  /\ LET ld == BroadcastLen(Len(distMag), Len(aFactor))
         n == IF ld = 0 THEN 0 ELSE BroadcastLen(Len(phantom), ld)
     IN  IF n = 0
         THEN /\ pc' = "raised"
              /\ err' = Raise("ValueError",
                              IF ld = 0 THEN "sensitivity*aFactor"
                              ELSE "reconstructed / (sensitivity*aFactor)")
              /\ UNCHANGED correctedRecon
         ELSE /\ pc' = "done"
              /\ correctedRecon' =
                   Correct(reconstructed, Sensitivity(dArea, distMag), aFactor, n)
              /\ UNCHANGED err
  /\ UNCHANGED <<tExpected, tCounts, i, weights, reconstructed>>
  /\ UNCHANGED <<reconArgs, burstVars, braggVars, kinVars>>

ReconNext == ReconStart \/ SkipEmptyBin \/ BackProject \/ ReconCorrect

\* ------------------------------------------- the caller's set-up (Main)
\* The speed of light, 3e8 m/s, in mm per tick of 10 ps.
c == 3
\* The detector's area, 0.0025 m^2, in mm^2.
DetectorArea == 2500
\* The attenuation coefficient mu = 0.06 per cm, as MuNum/MuDen.
MuNum == 6
MuDen == 100

\* np.exp(-mu*(distMag/10)), in quanta.
AttenuationFactor(dist) ==
  [z \in 1..Len(dist) |-> ExpNeg(MuNum * dist[z], MuDen * 10)]

\* A timestamp more than 38.6 sigma away from every expected time.
FarTime == 48
TimeValues == {0, 1, 2, FarTime}
Widths == {1, 7}
Sigmas == {1, 2}
DetectorLocations == {<<0, 0>>, <<3, 4>>}
TofValues == {0, 1}

RECURSIVE SeqsUpTo(_, _)
SeqsUpTo(S, n) ==
  IF n = 0 THEN {<<>>}
  ELSE LET shorter == SeqsUpTo(S, n - 1)
       IN  shorter \cup {Append(s, x) : s \in {t \in shorter : Len(t) = n - 1}, x \in S}

NonDecreasing(s) == \A j \in 1..(Len(s) - 1) : s[j] <= s[j + 1]

IdleBurst ==
  /\ peak = Idle /\ pPB = Idle /\ yiel = Idle /\ dTRes = Idle
  /\ mean = Idle /\ k = Idle /\ timingJitter = Idle /\ measuredTime = Idle
IdleBragg ==
  /\ peakHeight = Idle /\ entranceDose = Idle /\ peakWidth = Idle
  /\ falloffSteepness = Idle /\ dose = Idle
IdleKin == initialE = Idle /\ energies = Idle /\ vel = Idle /\ integrand = Idle
IdleReconLocals ==
  /\ tExpected = Idle /\ tCounts = Idle /\ i = 0 /\ weights = Idle
  /\ reconstructed = Idle /\ correctedRecon = Idle

\* Reconstruction called as Main calls it: per-bin arrays as long as the depth
\* axis, a detector somewhere, any timestamps.
ReconInit ==
  /\ pc = "Reconstruction"
  /\ err = NoError
  /\ phantom \in {CreatePhantom(n) : n \in 1..MaxBins}
  /\ distMag \in {CalculateDistances(phantom, loc) : loc \in DetectorLocations}
  /\ tp \in {t \in [1..Len(phantom) -> TofValues] : t[1] = 0 /\ NonDecreasing(t)}
  /\ gammaTOF = [z \in 1..Len(phantom) |-> distMag[z] \div c]
  /\ aFactor \in {<<Scale>>, AttenuationFactor(distMag)}
  /\ detectorData \in SeqsUpTo(TimeValues, MaxHits)
  /\ tBinWidth \in Widths
  /\ sigma \in Sigmas
  /\ dArea = DetectorArea
  /\ IdleReconLocals /\ IdleBurst /\ IdleBragg /\ IdleKin

SpecRecon == ReconInit /\ [][ReconNext]_vars

\* C1: Reconstruction on an empty timestamp collection fails with an
\* invalid-input error of its own, not with the exception of the min/max
\* reduction, and returns no profile.
C1_EmptyInputIsInvalidInput ==
  (Len(detectorData) = 0 /\ pc # "Reconstruction")
    => (pc = "raised" /\ err.type = "InvalidInput" /\ err.at # "detectorData.min()")

AllCountsZero == \A b \in 1..Len(tCounts) : tCounts[b] = 0

\* C2: when no time bin holds a non-zero count, the returned profile is as long
\* as the depth axis and every entry is the number 0 (no nan, no inf).
C2_ZeroCountsZeroProfile ==
  (pc = "done" /\ AllCountsZero)
    => /\ Len(correctedRecon) = Len(phantom)
       /\ \A z \in 1..Len(phantom) : correctedRecon[z] = Num(0)

\* C2's case: several timestamps, no count in any bin, also with a depth bin at
\* the detector's own position (sensitivity inf).
C2_Witness ==
  /\ pc = "done" /\ AllCountsZero /\ Len(detectorData) >= 2
  /\ \E z \in 1..Len(distMag) : distMag[z] = 0

SumV(fs) == SumSeq([z \in 1..Len(fs) |-> fs[z].v])

\* C3: the normalised weights of a time bin with counts are numbers in [0, 1]
\* that add up to 1 (to within one quantum per depth bin).
C3_WeightsSumToOne ==
  (weights # Idle)
    => /\ \A z \in 1..Len(weights) :
            IsNum(weights[z]) /\ weights[z].v >= 0 /\ weights[z].v <= Scale
       /\ Abs(SumV(weights) - Scale) <= Len(weights)

\* C10: every timestamp is counted in a time bin, and the accumulated profile,
\* before the correction, adds up to the number of timestamps (to within one
\* quantum per depth bin and timestamp).
C10_CountsConserved ==
  (pc = "done")
    => /\ SumSeq(tCounts) = Len(detectorData)
       /\ \A z \in 1..Len(reconstructed) : IsNum(reconstructed[z])
       /\ Abs(SumV(reconstructed) - Len(detectorData) * Scale)
            <= Len(reconstructed) * Len(detectorData)

\* Reconstruction called with per-bin arrays of any lengths, equal to the depth
\* axis's or not.
ShapeInit ==
  /\ pc = "Reconstruction"
  /\ err = NoError
  /\ phantom \in {CreatePhantom(n) : n \in 1..MaxBins}
  /\ tp \in {[z \in 1..n |-> z - 1] : n \in 1..(MaxBins + 1)}
  /\ gammaTOF \in {[z \in 1..n |-> 1] : n \in 1..(MaxBins + 1)}
  /\ distMag \in {[z \in 1..n |-> c * z] : n \in 1..(MaxBins + 1)}
  /\ aFactor \in {[z \in 1..n |-> Scale] : n \in 1..(MaxBins + 1)}
  /\ detectorData \in SeqsUpTo(TimeValues, 2)
  /\ tBinWidth \in Widths
  /\ sigma \in Sigmas
  /\ dArea = DetectorArea
  /\ IdleReconLocals /\ IdleBurst /\ IdleBragg /\ IdleKin

SpecShape == ShapeInit /\ [][ReconNext]_vars

LengthMismatch ==
  \/ Len(tp) # Len(phantom)
  \/ Len(gammaTOF) # Len(phantom)
  \/ Len(distMag) # Len(phantom)

\* C9: with tp, gammaTOF or distMag of a length other than the depth axis's,
\* Reconstruction never returns a profile.
C9_LengthMismatchRaises == LengthMismatch => pc # "done"

\* ------------------------------------------------- CreateBraggCurve
\* a * b of two non-negative fixed-point doubles.
MulQ(a, b) == IF a = 0 \/ b = 0 THEN 0 ELSE Max2(1, (a * b) \div Scale)

\* np.exp(-(depths[falloffMask] - braggPosition)/falloffSteepness)
FalloffMissing(d, braggPosition, steep) == Scale
Falloff(d, braggPosition, steep) == ExpNeg(d - braggPosition, steep)

\* peakHeight * np.exp(-(depths-braggPosition)**2 / (2*peakWidth**2))
BraggPeak(d, braggPosition, height, width) ==
  MulQ(height, ExpNeg((d - braggPosition) * (d - braggPosition), 2 * width * width))

\* entrance + peak, and past the peak (entrance + peak) * falloff.
CreateBraggCurve(depths, braggPosition, height, entrance, width, steep) ==
  [z \in 1..Len(depths) |->
     LET plain == entrance + BraggPeak(depths[z], braggPosition, height, width)
     IN  IF depths[z] > braggPosition
         THEN MulQ(plain, Falloff(depths[z], braggPosition, steep))
         ELSE plain]

\* The defaults of CreateBraggCurve: 1.0, 0.3, 8 mm, 5 mm.
DefaultPeakHeight == 1000
DefaultEntranceDose == 300
DefaultPeakWidth == 8
DefaultFalloffSteepness == 5

\* A depth axis of n bins, `step` apart.
Axis(n, step) == [z \in 1..n |-> (z - 1) * step]
\* 1 mm as in CreatePhantom, and a step past which exp underflows.
DepthSteps == {1, 2000}
PeakPositions == {0, 1}

IdleReconArgs ==
  /\ detectorData = Idle /\ gammaTOF = Idle /\ tBinWidth = Idle /\ sigma = Idle
  /\ dArea = Idle /\ aFactor = Idle

BraggInit ==
  /\ pc = "CreateBraggCurve"
  /\ err = NoError
  /\ phantom \in {Axis(n, step) : n \in 1..(MaxBins + 2), step \in DepthSteps}
  /\ peak \in PeakPositions
  /\ peakHeight \in {DefaultPeakHeight, 2 * DefaultPeakHeight}
  /\ entranceDose \in {DefaultEntranceDose, 2 * DefaultEntranceDose}
  /\ peakWidth \in {DefaultPeakWidth, 1}
  /\ falloffSteepness \in {DefaultFalloffSteepness, 1}
  /\ dose = Idle
  /\ distMag = Idle /\ tp = Idle
  /\ pPB = Idle /\ yiel = Idle /\ dTRes = Idle
  /\ mean = Idle /\ k = Idle /\ timingJitter = Idle /\ measuredTime = Idle
  /\ IdleReconArgs /\ IdleReconLocals /\ IdleKin

\* Lines 82-96.
BraggCall ==
  /\ pc = "CreateBraggCurve"
  /\ dose' = CreateBraggCurve(phantom, peak, peakHeight, entranceDose,
                              peakWidth, falloffSteepness)
  /\ pc' = "done"
  /\ UNCHANGED <<err, reconArgs, reconLocals, kinVars>>
  /\ UNCHANGED <<peak, pPB, yiel, dTRes, mean, k, timingJitter, measuredTime>>
  /\ UNCHANGED <<peakHeight, entranceDose, peakWidth, falloffSteepness>>

SpecBragg == BraggInit /\ [][BraggCall]_vars

BeyondPeak(z) == phantom[z] > peak

RestMass == 9383
\* The entrance velocity 0.662 * 3e8, as a fraction of c in quanta.
EntranceBeta == 662

\* Lines 118-119: the energy left, 0 past the proton's range.
ClampEnergyUnclamped(energy) == energy
ClampEnergy(energy) == IF energy <= 0 THEN 0 ELSE energy

\* Lines 122-123: beta = sqrt(1 - (938.3/(energy + 938.3))**2), velocity =
\* beta * 3e8; the velocity in quanta of mm per tick.
Velocity(energy) ==
  LET ratio == (RestMass * Scale) \div (energy + RestMass)
      beta == FSqrt(Scale * Scale - ratio * ratio)
  IN  IF IsNum(beta) THEN Num(beta.v * c) ELSE NaN

\* Lines 111-130, for a table that holds every depth of the axis and an axis of
\* two bins or more.
Velocities(ph, e0, table) ==
  [z \in 1..Len(ph) |->
     IF z <= 2 THEN Num(EntranceBeta * c)
     ELSE Velocity(ClampEnergy(e0 - table[ph[z]]))]

\* Energy tables: the energy a proton needs to reach a depth, growing with the
\* depth, for the first m depths.
EnergySlopes == {10, 500}
InitialEnergies == {0, 15, 1457}

VelInit ==
  /\ pc = "velocities"
  /\ err = NoError
  /\ phantom \in {CreatePhantom(n) : n \in 1..(MaxBins + 2)}
  /\ energies \in {[d \in 0..(m - 1) |-> slope * d] :
                     m \in 1..(MaxBins + 2), slope \in EnergySlopes}
  /\ initialE \in InitialEnergies
  /\ vel = Idle /\ integrand = Idle
  /\ distMag = Idle /\ tp = Idle
  /\ IdleReconArgs /\ IdleReconLocals /\ IdleBurst /\ IdleBragg

\* velocities(phantom, initialE): KeyError at the first depth the table lacks,
\* IndexError at vel[1] (or vel[0]) on an axis shorter than two bins.
VelocitiesCall ==
  /\ pc = "velocities"
  /\ IF \E z \in 1..Len(phantom) : phantom[z] \notin DOMAIN energies
     THEN /\ pc' = "raised"
          /\ err' = Raise("KeyError", "energies[z]")
          /\ UNCHANGED vel
     ELSE IF Len(phantom) < 2
     THEN /\ pc' = "raised"
          /\ err' = Raise("IndexError", "vel[1]")
          /\ UNCHANGED vel
     ELSE /\ pc' = "done"
          /\ vel' = Velocities(phantom, initialE, energies)
          /\ UNCHANGED err
  /\ UNCHANGED <<initialE, energies, integrand>>
  /\ UNCHANGED <<reconArgs, reconLocals, burstVars, braggVars>>

SpecVel == VelInit /\ [][VelocitiesCall]_vars

\* C7: every velocity returned is a number between 0 and c.
C7_VelocityWithinLightSpeed ==
  (pc = "done")
    => \A z \in 1..Len(vel) :
         IsNum(vel[z]) /\ 0 <= vel[z].v /\ vel[z].v <= c * Scale

\* C7's case: an axis with a depth past the proton's range (velocity 0), a
\* depth within it (velocity above 0) and the two overridden bins.
C7_Witness ==
  /\ pc = "done"
  /\ \E z \in 3..Len(vel) : initialE - energies[phantom[z]] <= 0 /\ vel[z] = Num(0)
  /\ \E z \in 3..Len(vel) : initialE - energies[phantom[z]] > 0 /\ vel[z].v > 0
  /\ vel[1] = Num(EntranceBeta * c)

\* ------------------------------------------------------- ProtonTime
\* Lines 148-152: 1/velocity, and 0 for a velocity of 0.
ReciprocalUnguarded(velocity) == FDiv(Num(Scale), Num(velocity), Scale)
Reciprocal(velocity) ==
  IF velocity = 0 THEN Num(0) ELSE FDiv(Num(Scale), Num(velocity), Scale)

\* One step of cumulative_trapezoid: dx * (y[z] + y[z-1]) / 2.
TrapezoidStep(dx, ya, yb) ==
  IF ~IsNum(ya) \/ ~IsNum(yb) THEN FAdd(ya, yb)
  ELSE Num((dx * (ya.v + yb.v)) \div 2)

\* cumulative_trapezoid(y, x, initial=0)
RECURSIVE CumTrapz(_, _, _)
CumTrapz(y, x, z) ==
  IF z = 1 THEN Num(0)
  ELSE FAdd(CumTrapz(y, x, z - 1), TrapezoidStep(x[z] - x[z - 1], y[z], y[z - 1]))

DepthValues == {0, 1, 2, 5}
VelocityValues == {0, 1, EntranceBeta * c, c * Scale}
StrictlyIncreasing(s) == \A j \in 1..(Len(s) - 1) : s[j] < s[j + 1]

TimeInit ==
  /\ pc = "ProtonTime"
  /\ err = NoError
  /\ phantom \in {s \in SeqsUpTo(DepthValues, MaxBins + 1) :
                    Len(s) >= 1 /\ StrictlyIncreasing(s)}
  /\ vel \in [1..Len(phantom) -> VelocityValues]
  /\ integrand = Idle /\ tp = Idle
  /\ initialE = Idle /\ energies = Idle
  /\ distMag = Idle
  /\ IdleReconArgs /\ IdleReconLocals /\ IdleBurst /\ IdleBragg

\* Lines 145-152: the integrand.
BuildIntegrand ==
  /\ pc = "ProtonTime"
  /\ integrand' = [z \in 1..Len(vel) |-> Reciprocal(vel[z])]
  /\ pc' = "integrate"
  /\ UNCHANGED <<err, initialE, energies, vel>>
  /\ UNCHANGED <<reconArgs, reconLocals, burstVars, braggVars>>

\* Lines 156-158: the cumulative integral; scipy refuses x and y of different
\* lengths.
Integrate ==
  /\ pc = "integrate"
  /\ IF Len(integrand) # Len(phantom)
     THEN /\ pc' = "raised"
          /\ err' = Raise("ValueError", "cumulative_trapezoid")
          /\ UNCHANGED tp
     ELSE /\ pc' = "done"
          /\ tp' = [z \in 1..Len(phantom) |-> CumTrapz(integrand, phantom, z)]
          /\ UNCHANGED err
  /\ UNCHANGED <<phantom, detectorData, gammaTOF, tBinWidth, sigma, dArea, distMag, aFactor>>
  /\ UNCHANGED <<reconLocals, burstVars, braggVars, kinVars>>

SpecTime == TimeInit /\ [][BuildIntegrand \/ Integrate]_vars

\* C6: ProtonTime returns as many times as there are depths, the first 0, all
\* of them numbers >= 0 and none below the one before; a velocity of 0 gives
\* the integrand 0 and nothing is divided by 0 (every integrand is a number).
C6_TimeOfFlightMonotone ==
  (pc = "done")
    => /\ Len(tp) = Len(phantom)
       /\ tp[1] = Num(0)
       /\ \A z \in 1..Len(tp) : IsNum(tp[z]) /\ tp[z].v >= 0
       /\ \A z \in 1..(Len(tp) - 1) : tp[z].v <= tp[z + 1].v
       /\ \A z \in 1..Len(vel) :
            IsNum(integrand[z]) /\ (vel[z] = 0 => integrand[z] = Num(0))

\* C6's case: three depths or more, a velocity of 0 among positive ones.
C6_Witness ==
  /\ pc = "done"
  /\ Len(phantom) >= 3
  /\ \E z \in 1..Len(vel) : vel[z] = 0
  /\ \E z \in 1..Len(vel) : vel[z] > 0
  /\ tp[Len(tp)].v > 0

\* ---------------------------------------------------- SimulateBurst
\* Lines 182-190: the mean number of photons detected from each depth.
MeanDetected(ph, dist, pk, protons, yld, area) ==
  LET raw == CreateBraggCurve(ph, pk, DefaultPeakHeight, DefaultEntranceDose,
                              DefaultPeakWidth, DefaultFalloffSteepness)
      normalised == [z \in 1..Len(ph) |-> FDiv(Num(raw[z]), Num(SeqMax(raw)), Scale)]
      sens == Sensitivity(area, dist)
      atten == AttenuationFactor(dist)
  IN  [z \in 1..Len(ph) |->
         FMul(FMul(FMul(Num(protons * yld), normalised[z], 1), sens[z], Scale),
              Num(atten[z]), Scale)]

\* yTOF + tp, yTOF = distMag/3e8.
BaseTime(dist, t) == [z \in 1..Len(dist) |-> dist[z] \div c + t[z]]

Copies(x, n) == [j \in 1..n |-> x]

\* np.repeat(baseTime, k): k[z] copies of baseTime[z], bin after bin.
RECURSIVE RepeatFrom(_, _, _)
RepeatFrom(base, counts, z) ==
  IF z > Len(base) THEN <<>>
  ELSE Copies(base[z], counts[z]) \o RepeatFrom(base, counts, z + 1)
RepeatOnce(base, counts) == base
Repeat(base, counts) == RepeatFrom(base, counts, 1)

\* What np.random.normal(0, dTRes) can return, in ticks.
JitterValues(resolution) == IF resolution = 0 THEN {0} ELSE {-1, 0, 1}

BurstInit ==
  /\ pc = "SimulateBurst"
  /\ err = NoError
  /\ phantom \in {CreatePhantom(n) : n \in 1..MaxBins}
  /\ distMag \in {CalculateDistances(phantom, loc) : loc \in DetectorLocations}
  /\ tp \in {t \in [1..Len(phantom) -> TofValues] : t[1] = 0 /\ NonDecreasing(t)}
  /\ peak \in PeakPositions
  /\ pPB \in {0, 5}
  /\ yiel = 1
  /\ dArea = DetectorArea
  /\ dTRes \in {0, 1}
  /\ mean = Idle /\ k = Idle /\ timingJitter = Idle /\ measuredTime = Idle
  /\ detectorData = Idle /\ gammaTOF = Idle /\ tBinWidth = Idle /\ sigma = Idle
  /\ aFactor = Idle
  /\ IdleReconLocals /\ IdleBragg /\ IdleKin

\* Lines 182-194: the means, the Poisson draw of the signal and the Poisson
\* draw of the background (mean 2) added to it.  A Poisson draw of mean 0 is
\* 0; np.random.poisson refuses a mean that is nan or too large.  The burst
\* holds MaxHits photons at most.
DrawCounts ==
  /\ pc = "SimulateBurst"
  /\ mean' = MeanDetected(phantom, distMag, peak, pPB, yiel, dArea)
  /\ IF \E z \in 1..Len(phantom) : ~IsNum(mean'[z])
     THEN /\ pc' = "raised"
          /\ err' = Raise("ValueError", "np.random.poisson(lam=mean)")
          /\ UNCHANGED k
     ELSE /\ \E signal, background \in [1..Len(phantom) -> 0..MaxHits] :
               /\ \A z \in 1..Len(phantom) : mean'[z].v = 0 => signal[z] = 0
               /\ SumSeq(signal) + SumSeq(background) <= MaxHits
               /\ k' = [z \in 1..Len(phantom) |-> signal[z] + background[z]]
          /\ pc' = "drawn"
          /\ UNCHANGED err
  /\ UNCHANGED <<peak, pPB, yiel, dTRes, timingJitter, measuredTime>>
  /\ UNCHANGED <<reconArgs, reconLocals, braggVars, kinVars>>

\* Lines 197-206: the base times repeated, a jitter drawn per entry and added.
RepeatAndJitter ==
  /\ pc = "drawn"
  /\ LET repeated == Repeat(BaseTime(distMag, tp), k)
     IN  \E jitter \in [1..Len(repeated) -> JitterValues(dTRes)] :
           /\ timingJitter' = jitter
           /\ measuredTime' = [j \in 1..Len(repeated) |-> repeated[j] + jitter[j]]
  /\ pc' = "done"
  /\ UNCHANGED <<err, peak, pPB, yiel, dTRes, mean, k>>
  /\ UNCHANGED <<reconArgs, reconLocals, braggVars, kinVars>>

SpecBurst == BurstInit /\ [][DrawCounts \/ RepeatAndJitter]_vars

RECURSIVE PrefixSum(_, _)
PrefixSum(s, n) == IF n = 0 THEN 0 ELSE s[n] + PrefixSum(s, n - 1)

\* The bin that entry j of the result is counted for.
OwnerBin(counts, j) ==
  CHOOSE z \in 1..Len(counts) : PrefixSum(counts, z - 1) < j /\ j <= PrefixSum(counts, z)

\* C4: the burst holds as many timestamps as photons were detected, and k[z]
\* of them are bin z's base time plus the jitter drawn for that entry.
C4_BurstSizeIsTotalCount ==
  (pc = "done")
    => /\ Len(measuredTime) = SumSeq(k)
       /\ \A j \in 1..Len(measuredTime) :
            measuredTime[j]
              = BaseTime(distMag, tp)[OwnerBin(k, j)] + timingJitter[j]
       /\ \A z \in 1..Len(k) :
            Cardinality({j \in 1..Len(measuredTime) : OwnerBin(k, j) = z}) = k[z]

\* C4's case: a bin without a photon beside a bin with two that were jittered
\* differently.
C4_Witness ==
  /\ pc = "done"
  /\ \E z \in 1..Len(k) : k[z] = 0
  /\ \E j \in 1..(Len(measuredTime) - 1) :
       /\ OwnerBin(k, j) = OwnerBin(k, j + 1)
       /\ timingJitter[j] # timingJitter[j + 1]

\* ------------------------------------------------------ the program
\* Any of the functions, called once.
Init == ReconInit \/ ShapeInit \/ BraggInit \/ VelInit \/ TimeInit \/ BurstInit

Next ==
  \/ ReconStart \/ SkipEmptyBin \/ BackProject \/ ReconCorrect
  \/ BraggCall
  \/ VelocitiesCall
  \/ BuildIntegrand \/ Integrate
  \/ DrawCounts \/ RepeatAndJitter

Spec == Init /\ [][Next]_vars

====
